---- MODULE Spec2Model ----
(***************************************************************************)
(* TwitchLivePlatform (src/src/open_llm_vtuber/live/twitch_live.py).       *)
(*                                                                         *)
(* One instance, driven by                                                 *)
(*   - a sequential client that calls the public operations one after      *)
(*     another (connect, disconnect, _connect_to_twitch_irc,               *)
(*     _send_to_proxy, send_message, register_message_handler, run);       *)
(*   - the two tasks run() creates (start_receiving, _monitor_twitch_chat);*)
(*   - a second task that calls disconnect() while run() is in progress    *)
(*     (the external stop signal);                                         *)
(*   - the environment: the relay peer, the chat server, the handlers'     *)
(*     threads and the top-level cancellation of run().                    *)
(*                                                                         *)
(* Scheduling is asyncio's: one event loop, a coroutine keeps the loop     *)
(* until it suspends in an await that really waits.  A pc value names the  *)
(* statement a task is stopped at.  The chat socket is the synchronous     *)
(* websocket-client socket: its recv() does not suspend, it keeps the      *)
(* event loop until the chat server sends something.                       *)
(***************************************************************************)
EXTENDS Integers, Sequences, FiniteSets, TLC

\* ------------------------------------------------------------------ bounds
MaxConns    == 2   \* relay connections opened in one behaviour
MaxIrc      == 2   \* chat sockets opened in one behaviour
MaxOut      == 2   \* frames written by direct _send_to_proxy calls
MaxStops    == 1   \* disconnect() calls of the stop task
MaxReads    == 1   \* chat reads that return data
MaxBatch    == 2   \* protocol lines in one chat read
MaxHandlers == 2   \* registered handlers
MaxSegments == 2   \* segments of the read SpecChat follows
MaxSay      == 1   \* chat posts written by send_message on one chat socket

\* ------------------------------------------------------------ value sets
Frames        == {"f1", "f2"}
CloseOutcomes == {"ok", "raise"}
IrcOutcomes   == {"nosock", "pass", "nick", "join", "ok"}
WsApis        == {"closed", "open", "plain"}
Callers       == {"client", "stopper", "run"}

VARIABLES
  running,          \* self._running
  connected,        \* self._connected
  websocket,        \* self._websocket: id of a relay connection, 0 for None
  irc_socket,       \* self._irc_socket: id of a chat socket, 0 for None
  message_handlers, \* self._message_handlers
  wsApi,            \* which attribute the relay connection object has
  oauth_token,      \* self._oauth_token, << >> for the empty string
  wsState,          \* relay connections opened so far:
                    \*   id -> open/closing/closed
  ircState,         \* chat sockets opened so far: id -> open/closed
  wsCloses,         \* id -> close() calls on that relay connection made
                    \*       while run() was in progress
  ircCloses,        \* id -> close() calls on that chat socket made while
                    \*       run() was in progress
  wsOut,            \* frames written to relay connections, in order
  ircOut,           \* lines sent on the chat socket irc_socket refers to
  runPc,            \* run()
  rxPc,             \* start_receiving task
  chatPc,           \* _monitor_twitch_chat task
  discPc,           \* caller -> idle/closing: disconnect() awaiting close()
  discWs,           \* caller -> relay connection whose close() is awaited
  chatBatch,        \* lines of the current chat read not yet processed
  hIdx,             \* index of the handler the receive loop is awaiting
  curMsg,           \* the inbound message being dispatched, "" if none
  dispatched,       \* handlers invoked for curMsg, in order, and how each
                    \*   call ended
  reads,            \* chat reads that returned data so far
  stops,            \* disconnect() calls of the stop task so far
  ret,              \* the client's last call and what it returned
  cancelled,        \* run()'s task was cancelled
  runWs,            \* relay connection opened by the current run(), 0 if none
  runIrc,           \* chat socket opened by the current run(), 0 if none
  runRelayOk,       \* outcome of the current run()'s relay connect
  runChat,          \* outcome of the current run()'s chat connect
  runSpawned,       \* the current run() created its two tasks
  lastDisc          \* how the last disconnect() that ended, ended

vars == << running, connected, websocket, irc_socket, message_handlers, wsApi,
           oauth_token,
           wsState, ircState, wsCloses, ircCloses, wsOut, ircOut,
           runPc, rxPc, chatPc, discPc, discWs, chatBatch, hIdx, curMsg,
           dispatched, reads, stops,
           ret, cancelled, runWs, runIrc, runRelayOk, runChat, runSpawned,
           lastDisc >>

instVars == << running, connected, websocket, irc_socket, message_handlers >>
cfgVars  == << wsApi, oauth_token >>
sockVars == << wsState, ircState, wsCloses, ircCloses >>
logVars  == << wsOut, ircOut >>
taskVars == << rxPc, chatPc, chatBatch, hIdx, curMsg, dispatched >>
envVars  == << reads >>
discVars == << discPc, discWs, lastDisc >>
runHist  == << runWs, runIrc, runRelayOk, runChat, runSpawned >>

\* ---------------------------------------------------------------- helpers
Append1(s, i) == [s EXCEPT ![i] = @ + 1]

\* --------------------------------------------------------- protocol text
\* Text is a sequence of symbols.  A symbol stands for one character (":",
\* "!", " ", "#", "@", ".", "*") or for a run of characters the code never
\* looks inside; "PING", "PONG" and "PRIVMSG" stand for these very letters,
\* wherever they occur.
WordSyms == {"u", "c", "d", "h", "t", "host", "tok", "nick", "cap", "PING",
             "PONG", "PRIVMSG", "JOIN", "NOTICE", "CAP", "ACK"}

IsWord(ch) == ch \in WordSyms          \* \w of line 185

IsSpace(ch) == ch = " "                \* what str.strip() removes

CRLF == "\r\n"

\* The configuration the instance is built with.
Channel  == "c"                        \* self._channel
Username == "nick"                     \* self._username
Tokens   == { << >>, << "tok" >>, << "oauth:", "tok" >> }

\* What the chat server can send: a liveness probe with its token, a chat
\* post, a join notice, a capability ack, a notice.
PingLine(tok) == IF tok = << >> THEN << "PING" >>
                 ELSE << "PING", " ", ":" >> \o tok

PrivmsgLine(user, chan, text) ==
  << ":", user, "!", user, "@", "host", " ", "PRIVMSG", " ", "#", chan,
     " ", ":" >> \o text

JoinLine   == << ":", "u", "!", "u", "@", "host", " ", "JOIN", " ", "#", "c" >>
CapAckLine == << ":", "host", " ", "CAP", " ", "*", " ", "ACK", " ", ":",
                 "cap" >>
NoticeLine == << ":", "host", " ", "NOTICE", " ", "#", "c", " ", ":",
                 "PRIVMSG" >>

\* The lines of the reads of a run(): one of each kind.
Lines == { << >>, PingLine(<< "t" >>), PrivmsgLine("u", "c", << "h" >>),
           JoinLine }

BatchesOf(n) == UNION { [1..k -> Lines] : k \in 1..n }

\* str.strip() (lines 188, 295)
RECURSIVE lstrip(_)
lstrip(t) == IF t # << >> /\ IsSpace(Head(t)) THEN lstrip(Tail(t)) ELSE t

RECURSIVE rstrip(_)
rstrip(t) ==
  IF t # << >> /\ IsSpace(t[Len(t)]) THEN rstrip(SubSeq(t, 1, Len(t) - 1))
  ELSE t

strip(t) == rstrip(lstrip(t))

\* response.strip().split('\r\n') (line 295) on a read whose segments
\* between CRLFs are b: the white space at both ends of the read goes,
\* empty segments at both ends included; a read that is all white space
\* gives one empty segment.
RECURSIVE lstrip_read(_)
lstrip_read(b) ==
  IF b = << >> THEN << >>
  ELSE IF lstrip(Head(b)) = << >> THEN lstrip_read(Tail(b))
  ELSE << lstrip(Head(b)) >> \o Tail(b)

RECURSIVE rstrip_read(_)
rstrip_read(b) ==
  IF b = << >> THEN << >>
  ELSE IF rstrip(b[Len(b)]) = << >>
       THEN rstrip_read(SubSeq(b, 1, Len(b) - 1))
  ELSE SubSeq(b, 1, Len(b) - 1) \o << rstrip(b[Len(b)]) >>

strip_split(b) ==
  LET r == rstrip_read(lstrip_read(b)) IN
  IF r = << >> THEN << << >> >> ELSE r

\* __init__ (lines 37-44)
Init ==
  /\ running = FALSE
  /\ connected = FALSE
  /\ websocket = 0
  /\ irc_socket = 0
  /\ message_handlers = << >>
  /\ wsApi \in WsApis
  /\ oauth_token \in Tokens
  /\ wsState = << >>
  /\ ircState = << >>
  /\ wsCloses = << >>
  /\ ircCloses = << >>
  /\ wsOut = << >>
  /\ ircOut = << >>
  /\ runPc = "idle"
  /\ rxPc = "none"
  /\ chatPc = "none"
  /\ discPc = [c \in Callers |-> "idle"]
  /\ discWs = [c \in Callers |-> 0]
  /\ chatBatch = << >>
  /\ hIdx = 0
  /\ curMsg = ""
  /\ dispatched = << >>
  /\ reads = 0
  /\ stops = 0
  /\ ret = [op |-> "none", val |-> "none"]
  /\ cancelled = FALSE
  /\ runWs = 0
  /\ runIrc = 0
  /\ runRelayOk = "none"
  /\ runChat = "none"
  /\ runSpawned = FALSE
  /\ lastDisc = "none"

\* ------------------------------------------------------------ event loop
\* A task that is inside a stretch of code with no suspending await keeps
\* the event loop: the chat task in its blocking recv() and while it works
\* through a batch, run() between two awaits.
RunSyncPcs  == {"chat", "chatfail", "finally"}
ChatSyncPcs == {"recv", "lines"}

Holder ==
  IF chatPc \in ChatSyncPcs THEN "chat"
  ELSE IF runPc \in RunSyncPcs THEN "run"
  ELSE "none"

CanStep(t) == Holder \in {"none", t}

RunActive == runPc \notin {"idle", "done"}

\* Variant of is_connected that looks at the connection object only and
\* forgets the connected flag.
is_connected_ignores_flag ==
  websocket # 0 /\ wsState[websocket] = "open"

\* is_connected (lines 46-59)
is_connected ==
  IF websocket = 0 THEN FALSE
  ELSE CASE wsApi = "closed" -> connected /\ wsState[websocket] # "closed"
         [] wsApi = "open"   -> connected /\ wsState[websocket] = "open"
         [] OTHER            -> connected

\* ------------------------------------------------------------- operations
\* connect (lines 71-80), from the point where websockets.connect returns
\* or raises.  Constrains websocket, connected, wsState, wsCloses.
connect(ok) ==
  IF ok
  THEN /\ wsState' = Append(wsState, "open")
       /\ wsCloses' = Append(wsCloses, 0)
       /\ websocket' = Len(wsState) + 1
       /\ connected' = TRUE
  ELSE UNCHANGED << wsState, wsCloses, websocket, connected >>

\* Variant of _connect_to_twitch_irc that sends the token as it was given.
pass_value_as_given ==
  IF oauth_token # << >> THEN oauth_token ELSE << "oauth:", "anonymous" >>

\* lines 152-160: the value sent with PASS
pass_value ==
  LET oauth == IF oauth_token # << >> /\ Head(oauth_token) # "oauth:"
               THEN << "oauth:" >> \o oauth_token
               ELSE oauth_token
  IN IF oauth # << >> THEN oauth ELSE << "oauth:", "anonymous" >>

PassLine    == << "PASS", " " >> \o pass_value \o << CRLF >>      \* 158, 160
NickLine    == << "NICK", " ", Username, CRLF >>                  \* 162
JoinCommand == << "JOIN", " ", "#", Channel, CRLF >>              \* 163

\* The lines _connect_to_twitch_irc sends before outcome k stops it
\* (lines 157-163).
IrcLoginLines(k) ==
  CASE k = "pass" -> << >>
    [] k = "nick" -> << PassLine >>
    [] k = "join" -> << PassLine, NickLine >>
    [] OTHER      -> << PassLine, NickLine, JoinCommand >>

\* _connect_to_twitch_irc (lines 148-169); k tells where it fails, if it
\* does.  Constrains irc_socket, ircState, ircCloses, ircOut.
connect_to_twitch_irc(k) ==
  IF k = "nosock"
  THEN UNCHANGED << irc_socket, ircState, ircCloses, ircOut >>
  ELSE LET id == Len(ircState) + 1 IN
       /\ ircState' = Append(ircState, "open")
       /\ ircCloses' = Append(ircCloses, 0)
       /\ irc_socket' = id
       /\ ircOut' = IrcLoginLines(k)

\* self._websocket.send (line 222) writes the frame when the connection is
\* open and the write does not fail.
RelayWrites(o) ==
  /\ websocket # 0
  /\ wsState[websocket] = "open"
  /\ o = "ok"

\* _send_to_proxy (lines 216-228).  Constrains connected, wsOut.
send_to_proxy_result(o) ==
  IF ~is_connected THEN "False"
  ELSE IF RelayWrites(o) THEN "True" ELSE "False"

\* Variant of _send_to_proxy whose except clause leaves the connected flag
\* as it is.
send_to_proxy_keeps_flag(text, o) ==
  IF is_connected /\ RelayWrites(o)
  THEN /\ wsOut' = Append(wsOut, [ws |-> websocket, text |-> text])
       /\ UNCHANGED connected
  ELSE UNCHANGED << connected, wsOut >>

\* Variant of _send_to_proxy that puts the frame in front of the frames
\* already written.
send_to_proxy_prepends(text, o) ==
  IF ~is_connected
  THEN UNCHANGED << connected, wsOut >>
  ELSE IF RelayWrites(o)
       THEN /\ wsOut' = << [ws |-> websocket, text |-> text] >> \o wsOut
            /\ UNCHANGED connected
       ELSE /\ connected' = FALSE
            /\ UNCHANGED wsOut

send_to_proxy(text, o) ==
  IF ~is_connected
  THEN UNCHANGED << connected, wsOut >>
  ELSE IF RelayWrites(o)
       THEN /\ wsOut' = Append(wsOut, [ws |-> websocket, text |-> text])
            /\ UNCHANGED connected
       ELSE /\ connected' = FALSE
            /\ UNCHANGED wsOut

\* Variant of disconnect without its two except clauses.
close_error_propagates == FALSE

\* The two `except Exception` clauses of disconnect (lines 93, 100) catch
\* every failure of a close().
close_error_caught == TRUE

\* `if self._irc_socket:` (line 89) and `if self._websocket:` (line 97)
has_irc_socket == irc_socket # 0

\* Variant of disconnect that leaves the relay connection alone.
has_websocket_skipped == FALSE

has_websocket == websocket # 0

\* disconnect (lines 86-99), up to the await of self._websocket.close();
\* o is the outcome of the chat socket's close().  A close() that raises has
\* still shut the socket; what it changes is the control flow (line 92 is
\* skipped).  Constrains running, connected, irc_socket, the four socket
\* maps and the disconnect slots.
DisconnectBegin(c, o) ==
  LET ircRaises == has_irc_socket /\ o # "ok"
      aborted   == ircRaises /\ ~close_error_caught
  IN
  /\ running' = FALSE
  /\ IF has_irc_socket
     THEN /\ ircCloses' = IF RunActive THEN Append1(ircCloses, irc_socket)
                          ELSE ircCloses
          /\ ircState' = [ircState EXCEPT ![irc_socket] = "closed"]
          /\ irc_socket' = IF o = "ok" THEN 0 ELSE irc_socket
     ELSE UNCHANGED << ircCloses, ircState, irc_socket >>
  /\ IF aborted
     THEN /\ lastDisc' = "raised"
          /\ UNCHANGED << wsCloses, wsState, connected, discPc, discWs >>
     ELSE IF has_websocket
     THEN /\ wsCloses' = IF RunActive THEN Append1(wsCloses, websocket)
                         ELSE wsCloses
          /\ wsState' = [wsState EXCEPT ![websocket] =
                            IF @ = "open" THEN "closing" ELSE @]
          /\ discPc' = [discPc EXCEPT ![c] = "closing"]
          /\ discWs' = [discWs EXCEPT ![c] = websocket]
          /\ UNCHANGED << connected, lastDisc >>
     ELSE /\ connected' = FALSE
          /\ lastDisc' = "returned"
          /\ UNCHANGED << wsCloses, wsState, discPc, discWs >>

\* disconnect (lines 99-104), from the point where close() returns or
\* raises; o is its outcome.  Constrains wsState, connected and the slots.
DisconnectEnd(c, o) ==
  /\ discPc[c] = "closing"
  /\ wsState' = [wsState EXCEPT ![discWs[c]] = "closed"]
  /\ discPc' = [discPc EXCEPT ![c] = "idle"]
  /\ UNCHANGED discWs
  /\ IF o # "ok" /\ ~close_error_caught
     THEN /\ lastDisc' = "raised"
          /\ UNCHANGED connected
     ELSE /\ lastDisc' = "returned"
          /\ connected' = FALSE

\* Does DisconnectBegin end in the await of close()?
DisconnectSuspends(o) ==
  /\ has_websocket
  /\ ~(has_irc_socket /\ o # "ok" /\ ~close_error_caught)

\* ------------------------------------------------------------- the client
\* The client calls the next operation when the previous one has returned
\* and no disconnect() of the stop task is still under way.
ClientIdle ==
  /\ runPc \in {"idle", "done"}
  /\ discPc["client"] = "idle"
  /\ discPc["stopper"] = "idle"

\* register_message_handler (line 138)
\* Handlers are told apart by the order they were registered in: the n-th
\* registered handler is n.
ClientRegister ==
  /\ ClientIdle
  /\ runPc = "idle"
  /\ Len(message_handlers) < MaxHandlers
  /\ message_handlers' = Append(message_handlers, Len(message_handlers) + 1)
  /\ UNCHANGED << running, connected, websocket, irc_socket, cfgVars, sockVars,
                  logVars, runPc, taskVars, discVars, envVars, stops,
                  ret, cancelled, runHist >>

\* await connect(url) called by the client (lines 61-80)
ClientConnect(ok) ==
  /\ ClientIdle
  /\ ok => Len(wsState) < MaxConns
  /\ connect(ok)
  /\ ret' = [op |-> "connect", val |-> IF ok THEN "True" ELSE "False"]
  /\ UNCHANGED << running, irc_socket, message_handlers, cfgVars, ircState,
                  ircCloses, logVars, runPc, taskVars, discVars, envVars,
                  stops, cancelled, runHist >>

\* _connect_to_twitch_irc() called by the client (lines 141-169)
ClientIrcConnect(k) ==
  /\ ClientIdle
  /\ k # "nosock" => Len(ircState) < MaxIrc
  /\ connect_to_twitch_irc(k)
  /\ ret' = [op |-> "_connect_to_twitch_irc",
             val |-> IF k = "ok" THEN "True" ELSE "False"]
  /\ UNCHANGED << running, connected, websocket, message_handlers, cfgVars,
                  wsState, wsCloses, wsOut, runPc, taskVars, discVars,
                  envVars, stops, cancelled, runHist >>

\* await _send_to_proxy(text) called by the client (lines 206-228)
ClientSendToProxy(o) ==
  /\ ClientIdle
  /\ send_to_proxy_result(o) = "True" => Len(wsOut) < MaxOut
  /\ send_to_proxy(<< "h" >>, o)
  /\ ret' = [op |-> "_send_to_proxy", val |-> send_to_proxy_result(o)]
  /\ UNCHANGED << running, websocket, irc_socket, message_handlers, cfgVars,
                  sockVars, ircOut, runPc, taskVars, discVars, envVars,
                  stops, cancelled, runHist >>

\* await disconnect() called by the client (lines 82-104)
ClientDisconnect(o) ==
  /\ ClientIdle
  /\ DisconnectBegin("client", o)
  /\ ret' = [op |-> "disconnect",
             val |-> IF DisconnectSuspends(o) THEN "pending"
                     ELSE IF lastDisc' = "raised" THEN "raised"
                     ELSE "None"]
  /\ UNCHANGED << websocket, message_handlers, cfgVars, logVars, runPc,
                  taskVars, envVars, stops, cancelled, runHist >>

ClientDisconnectEnd(o) ==
  /\ DisconnectEnd("client", o)
  /\ ret' = [op |-> "disconnect",
             val |-> IF lastDisc' = "raised" THEN "raised"
                     ELSE "None"]
  /\ UNCHANGED << running, websocket, irc_socket, message_handlers, cfgVars,
                  ircState, wsCloses, ircCloses, logVars, runPc, taskVars,
                  envVars, stops, cancelled, runHist >>

\* Variant of send_message that does not ask for a token.
can_send_message_any_token == irc_socket # 0

\* line 116: a chat socket and a token
can_send_message == irc_socket # 0 /\ oauth_token # << >>

\* line 121
SayCommand(text) ==
  << "PRIVMSG", " ", "#", Channel, " ", ":" >> \o text \o << CRLF >>

\* self._irc_socket.send (line 122) writes the line when the socket is open
\* and the write does not fail.
ChatWrites(o) == ircState[irc_socket] = "open" /\ o = "ok"

\* send_message (lines 116-127); o is the outcome of the write
send_message_result(o) ==
  IF ~can_send_message THEN "False"
  ELSE IF ChatWrites(o) THEN "True" ELSE "False"

send_message(text, o) ==
  IF can_send_message /\ ChatWrites(o)
  THEN ircOut' = Append(ircOut, SayCommand(text))
  ELSE UNCHANGED ircOut

\* await send_message(text) called by the client (lines 106-127)
ClientSendMessage(o) ==
  /\ ClientIdle
  /\ send_message_result(o) = "True" =>
        Len(ircOut) < Len(IrcLoginLines("ok")) + MaxSay
  /\ send_message(<< "h" >>, o)
  /\ ret' = [op |-> "send_message", val |-> send_message_result(o)]
  /\ UNCHANGED << instVars, cfgVars, sockVars, wsOut, runPc, taskVars,
                  discVars, envVars, stops, cancelled, runHist >>

\* ------------------------------------------------------------------ run()
\* run called by the client: line 330 and connect up to its await (line 72)
\* (scripts/run_twitch_live.py line 46 is the one caller; an instance runs
\* once)
RunStart ==
  /\ ClientIdle
  /\ runPc = "idle"
  /\ lastDisc' = "none"
  /\ running' = TRUE
  /\ runPc' = "connect"
  /\ rxPc' = "none"
  /\ chatPc' = "none"
  /\ chatBatch' = << >>
  /\ hIdx' = 0
  /\ curMsg' = ""
  /\ dispatched' = << >>
  /\ cancelled' = FALSE
  /\ runWs' = 0
  /\ runIrc' = 0
  /\ runRelayOk' = "none"
  /\ runChat' = "none"
  /\ runSpawned' = FALSE
  /\ ret' = [op |-> "run", val |-> "pending"]
  /\ UNCHANGED << connected, websocket, irc_socket, message_handlers, cfgVars,
                  sockVars, logVars, discPc, discWs, envVars, stops >>

\* Variant of run that does not look at what connect returned.
run_after_connect_unchecked(ok) == "chat"

\* lines 333-338: where run goes on after connect: the chat connect, or
\* the return of line 335, which takes it to the finally clause
run_after_connect(ok) == IF ok THEN "chat" ELSE "finally"

\* lines 333-335: websockets.connect returns or raises
RunConnect(ok) ==
  /\ runPc = "connect"
  /\ CanStep("run")
  /\ ok => Len(wsState) < MaxConns
  /\ connect(ok)
  /\ runWs' = IF ok THEN Len(wsState) + 1 ELSE 0
  /\ runRelayOk' = IF ok THEN "ok" ELSE "failed"
  /\ runPc' = run_after_connect(ok)
  /\ UNCHANGED << running, irc_socket, message_handlers, cfgVars, ircState,
                  ircCloses, logVars, taskVars, discVars, envVars, stops,
                  ret, cancelled, runIrc, runChat, runSpawned >>

\* lines 338-353: the chat connect, then either the two create_task calls
\* and the await of gather, or the failure branch
RunChatConnect(k) ==
  /\ runPc = "chat"
  /\ k # "nosock" => Len(ircState) < MaxIrc
  /\ connect_to_twitch_irc(k)
  /\ runChat' = k
  /\ runIrc' = IF k = "nosock" THEN 0 ELSE Len(ircState) + 1
  /\ IF k = "ok"
     THEN /\ rxPc' = "start"
          /\ chatPc' = "start"
          /\ runSpawned' = TRUE
          /\ runPc' = "gather"
     ELSE /\ runPc' = "chatfail"
          /\ UNCHANGED << rxPc, chatPc, runSpawned >>
  /\ UNCHANGED << running, connected, websocket, message_handlers, cfgVars,
                  wsState, wsCloses, wsOut, discVars, chatBatch, hIdx, curMsg,
                  dispatched, envVars, stops, ret, cancelled, runWs,
                  runRelayOk >>

\* line 340: await self.disconnect() of the failure branch
RunChatFailDisconnect(o) ==
  /\ runPc = "chatfail"
  /\ DisconnectBegin("run", o)
  /\ runPc' = IF DisconnectSuspends(o) THEN "d340" ELSE "finally"
  /\ UNCHANGED << websocket, message_handlers, cfgVars, logVars, taskVars,
                  envVars, stops, ret, cancelled, runHist >>

\* lines 340-341: that disconnect completes and run returns
RunD340End(o) ==
  /\ runPc = "d340"
  /\ CanStep("run")
  /\ DisconnectEnd("run", o)
  /\ runPc' = "finally"
  /\ UNCHANGED << running, websocket, irc_socket, message_handlers, cfgVars,
                  ircState, wsCloses, ircCloses, logVars, taskVars, envVars,
                  stops, ret, cancelled, runHist >>

TaskEnded(pc) == pc \in {"done", "cancelled"}

\* Variant of run that goes on as soon as one of the two tasks has ended.
GatherReady_first == TaskEnded(rxPc) \/ TaskEnded(chatPc)

\* line 353: gather completes when both tasks have ended
GatherReady == TaskEnded(rxPc) /\ TaskEnded(chatPc)

RunGatherDone ==
  /\ runPc = "gather"
  /\ CanStep("run")
  /\ GatherReady
  /\ runPc' = "finally"
  /\ UNCHANGED << instVars, cfgVars, sockVars, logVars, taskVars, discVars,
                  envVars, stops, ret, cancelled, runHist >>

RunResult == [op |-> "run", val |-> IF cancelled THEN "cancelled" ELSE "None"]

\* lines 362-364: the finally clause calls disconnect
RunFinally(o) ==
  /\ runPc = "finally"
  /\ DisconnectBegin("run", o)
  /\ IF DisconnectSuspends(o)
     THEN runPc' = "dfin" /\ UNCHANGED ret
     ELSE runPc' = "done" /\ ret' = RunResult
  /\ UNCHANGED << websocket, message_handlers, cfgVars, logVars, taskVars,
                  envVars, stops, cancelled, runHist >>

\* line 364: that disconnect completes and run is over
RunDfinEnd(o) ==
  /\ runPc = "dfin"
  /\ CanStep("run")
  /\ DisconnectEnd("run", o)
  /\ runPc' = "done"
  /\ ret' = RunResult
  /\ UNCHANGED << running, websocket, irc_socket, message_handlers, cfgVars,
                  ircState, wsCloses, ircCloses, logVars, taskVars, envVars,
                  stops, cancelled, runHist >>

\* run's task is cancelled while it waits: CancelledError is thrown into the
\* await it is suspended in.  No `except Exception` catches it (lines 78,
\* 100, 261, 266, 311, 319, 359); line 354 catches it for gather, after
\* gather has cancelled both tasks.  o tells whether a close() that was cut
\* short has closed the connection by the time run() goes on.
Cancel(o) ==
  /\ ~cancelled
  /\ Holder = "none"
  /\ runPc \in {"connect", "gather", "d340", "dfin"}
  /\ cancelled' = TRUE
  /\ CASE runPc = "connect" ->
            /\ runPc' = "finally"
            /\ runRelayOk' = "cancelled"
            /\ UNCHANGED << rxPc, chatPc, wsState, discPc, lastDisc, ret,
                            chatBatch, hIdx, curMsg, dispatched >>
       [] runPc = "gather" ->
            /\ runPc' = "finally"
            /\ rxPc' = IF rxPc = "done" THEN "done" ELSE "cancelled"
            /\ chatPc' = IF chatPc = "done" THEN "done" ELSE "cancelled"
            /\ chatBatch' = << >>
            /\ hIdx' = 0
            /\ curMsg' = ""
            /\ dispatched' = << >>
            /\ UNCHANGED << runRelayOk, wsState, discPc, lastDisc, ret >>
       [] OTHER ->
            /\ runPc' = IF runPc = "d340" THEN "finally" ELSE "done"
            /\ ret' = IF runPc = "d340" THEN ret
                      ELSE [op |-> "run", val |-> "cancelled"]
            /\ discPc' = [discPc EXCEPT !["run"] = "idle"]
            /\ lastDisc' = "cancelled"
            /\ wsState' = [wsState EXCEPT ![discWs["run"]] =
                              IF o = "closed" THEN "closed" ELSE @]
            /\ UNCHANGED << rxPc, chatPc, runRelayOk, chatBatch, hIdx,
                            curMsg, dispatched >>
  /\ UNCHANGED << instVars, cfgVars, ircState, wsCloses, ircCloses, logVars,
                  discWs, envVars, stops, runWs, runIrc, runChat,
                  runSpawned >>

\* ---------------------------------------------------------- the stop task
\* disconnect() called by another task while run() is in progress
StopBegin(o) ==
  /\ RunActive
  /\ Holder = "none"
  /\ stops < MaxStops
  /\ discPc["stopper"] = "idle"
  /\ DisconnectBegin("stopper", o)
  /\ stops' = stops + 1
  /\ UNCHANGED << websocket, message_handlers, cfgVars, logVars, runPc,
                  taskVars, envVars, ret, cancelled, runHist >>

StopEnd(o) ==
  /\ Holder = "none"
  /\ DisconnectEnd("stopper", o)
  /\ UNCHANGED << running, websocket, irc_socket, message_handlers, cfgVars,
                  ircState, wsCloses, ircCloses, logVars, runPc, taskVars,
                  envVars, stops, ret, cancelled, runHist >>

\* ------------------------------------------------ start_receiving (rx task)
\* the loop condition of line 241
RxLoopNext == IF running /\ is_connected THEN "recv" ELSE "done"

\* lines 235-243: the task's first step, up to the await of recv()
RxStart ==
  /\ rxPc = "start"
  /\ Holder = "none"
  /\ rxPc' = IF ~is_connected THEN "done" ELSE RxLoopNext
  /\ UNCHANGED << instVars, cfgVars, sockVars, logVars, runPc, chatPc,
                  chatBatch, hIdx, curMsg, dispatched, discVars, envVars,
                  stops, ret, cancelled, runHist >>

\* Variant of handle_incoming_messages without its except clause.
handler_error_propagates == FALSE

\* The `except Exception` of handle_incoming_messages (line 280) catches a
\* handler's failure.
handler_error_caught == TRUE

\* lines 243-255 and 277-279: recv() returns a frame that decodes; the
\* first handler, if any, is started in a thread and awaited
RxRecvFrame(f) ==
  /\ rxPc = "recv"
  /\ Holder = "none"
  /\ wsState[websocket] = "open"
  /\ IF message_handlers = << >>
     THEN /\ dispatched' = << >>
          /\ hIdx' = 0
          /\ curMsg' = ""
          /\ rxPc' = RxLoopNext
     ELSE /\ dispatched' = << [h |-> message_handlers[1], msg |-> f,
                              out |-> "running"] >>
          /\ hIdx' = 1
          /\ curMsg' = f
          /\ rxPc' = "handler"
  /\ UNCHANGED << instVars, cfgVars, sockVars, logVars, runPc, chatPc,
                  chatBatch, discVars, envVars, stops, ret, cancelled,
                  runHist >>

\* lines 243-244, 261-263: recv() or json.loads raises something other than
\* ConnectionClosed; the loop sleeps
RxRecvBad ==
  /\ rxPc = "recv"
  /\ Holder = "none"
  /\ wsState[websocket] = "open"
  /\ rxPc' = "sleep"
  /\ UNCHANGED << instVars, cfgVars, sockVars, logVars, runPc, chatPc,
                  chatBatch, hIdx, curMsg, dispatched, discVars, envVars,
                  stops, ret, cancelled, runHist >>

\* lines 257-260: recv() raises ConnectionClosed
RxRecvClosed ==
  /\ rxPc = "recv"
  /\ Holder = "none"
  /\ wsState[websocket] = "closed"
  /\ connected' = FALSE
  /\ rxPc' = "done"
  /\ UNCHANGED << running, websocket, irc_socket, message_handlers, cfgVars,
                  sockVars, logVars, runPc, chatPc, chatBatch, hIdx, curMsg,
                  dispatched, discVars, envVars, stops, ret, cancelled,
                  runHist >>

\* lines 277-281: the awaited handler returns or raises (r); the next
\* handler is started, or the dispatch is over and the loop goes on
RxHandlerDone(r) ==
  /\ rxPc = "handler"
  /\ Holder = "none"
  /\ IF r = "raise" /\ ~handler_error_caught
     THEN /\ rxPc' = "sleep"
          /\ hIdx' = 0
          /\ dispatched' = << >>
     ELSE IF hIdx < Len(message_handlers)
     THEN /\ hIdx' = hIdx + 1
          /\ dispatched' = Append([dispatched EXCEPT ![hIdx].out = r],
                 [h |-> message_handlers[hIdx + 1], msg |-> curMsg,
                  out |-> "running"])
          /\ UNCHANGED rxPc
     ELSE /\ hIdx' = 0
          /\ rxPc' = RxLoopNext
          /\ dispatched' = << >>
  /\ curMsg' = IF rxPc' = "handler" THEN curMsg ELSE ""
  /\ UNCHANGED << instVars, cfgVars, sockVars, logVars, runPc, chatPc,
                  chatBatch, discVars, envVars, stops, ret,
                  cancelled, runHist >>

\* line 263: asyncio.sleep(1) is over
RxWake ==
  /\ rxPc = "sleep"
  /\ Holder = "none"
  /\ rxPc' = RxLoopNext
  /\ UNCHANGED << instVars, cfgVars, sockVars, logVars, runPc, chatPc,
                  chatBatch, hIdx, curMsg, dispatched, discVars, envVars,
                  stops, ret, cancelled, runHist >>

\* ------------------------------------------ _monitor_twitch_chat (chat task)
\* the loop condition of line 289; "recv" is the blocking call of line 292
\* Variant of the loop condition of line 289 that also asks is_connected.
ChatLoopNext_checks_relay ==
  IF running /\ irc_socket # 0 /\ is_connected THEN "recv" ELSE "done"

ChatLoopNext == IF running /\ irc_socket # 0 THEN "recv" ELSE "done"

\* line 300: line.startswith("PING")
IsPing(line) == line # << >> /\ Head(line) = "PING"

\* line 301: line.replace("PING", "PONG")
pong_message(line) ==
  [i \in 1..Len(line) |-> IF line[i] = "PING" THEN "PONG" ELSE line[i]]

\* The first position from i on that holds no word character, Len + 1 if
\* there is none: where a \w+ that starts at i has to stop.
WordEnd(t, i) ==
  LET ends == {j \in i..(Len(t) + 1) : j = Len(t) + 1 \/ ~IsWord(t[j])}
  IN CHOOSE j \in ends : \A k \in ends : j <= k

\* `PRIVMSG #\w+ :(.+)` of line 185 matches at position j
PrivmsgAt(t, j) ==
  /\ j + 2 <= Len(t)
  /\ t[j] = "PRIVMSG" /\ t[j + 1] = " " /\ t[j + 2] = "#"
  /\ LET k == WordEnd(t, j + 3) IN
       /\ k > j + 3
       /\ k + 2 <= Len(t)
       /\ t[k] = " " /\ t[k + 1] = ":"

\* re.match of line 185: the two groups, or no match.  `.*` is greedy: of
\* the positions where the rest of the pattern matches it takes the last.
irc_match(t) ==
  IF ~(Len(t) >= 3 /\ t[1] = ":") THEN [ok |-> FALSE]
  ELSE LET i == WordEnd(t, 2) IN
       IF ~(i > 2 /\ i <= Len(t) /\ t[i] = "!") THEN [ok |-> FALSE]
       ELSE LET at == {j \in (i + 1)..Len(t) : PrivmsgAt(t, j)} IN
            IF at = {} THEN [ok |-> FALSE]
            ELSE LET j == CHOOSE x \in at : \A y \in at : y <= x
                     k == WordEnd(t, j + 3)
                 IN [ok |-> TRUE,
                     username |-> SubSeq(t, 2, i - 1),
                     chat_message |-> SubSeq(t, k + 2, Len(t))]

\* _parse_irc_message (lines 181-192): the text to forward, << >> for None
parse_irc_message(line) ==
  IF \E i \in 1..Len(line) : line[i] = "PRIVMSG"
  THEN LET m == irc_match(line) IN
       IF m.ok
       THEN m.username \o << ":", " " >> \o strip(m.chat_message)
       ELSE << >>
  ELSE << >>

\* lines 311-316: an exception inside the loop body
ChatExceptNext == IF running THEN "sleep" ELSE "done"

\* lines 288-292: the task's first step
ChatStart ==
  /\ chatPc = "start"
  /\ Holder = "none"
  /\ chatPc' = ChatLoopNext
  /\ UNCHANGED << instVars, cfgVars, sockVars, logVars, runPc, rxPc, chatBatch,
                  hIdx, curMsg, dispatched, discVars, envVars, stops,
                  ret, cancelled, runHist >>

\* lines 292-295: the blocking recv() returns the lines of one read
ChatRecvData(b) ==
  /\ chatPc = "recv"
  /\ ircState[irc_socket] = "open"
  /\ reads < MaxReads
  /\ reads' = reads + 1
  /\ chatBatch' = strip_split(b)
  /\ chatPc' = "lines"
  /\ UNCHANGED << instVars, cfgVars, sockVars, logVars, runPc, rxPc, hIdx,
                  curMsg, dispatched, discVars, stops, ret, cancelled,
                  runHist >>

\* lines 292, 311-316: the blocking recv() raises
ChatRecvError ==
  /\ chatPc = "recv"
  /\ chatPc' = ChatExceptNext
  /\ chatBatch' = << >>
  /\ UNCHANGED << instVars, cfgVars, sockVars, logVars, runPc, rxPc, hIdx,
                  curMsg, dispatched, discVars, envVars, stops, ret,
                  cancelled, runHist >>

\* lines 295-309: one line of the batch; o is the outcome of the write the
\* line causes, if it causes one
ChatLine(o) ==
  /\ chatPc = "lines"
  /\ chatBatch # << >>
  /\ LET line == Head(chatBatch)
         text == parse_irc_message(line)
     IN
     CASE line = << >> ->
            /\ chatBatch' = Tail(chatBatch)
            /\ UNCHANGED << chatPc, connected, wsOut, ircOut >>
       [] IsPing(line) ->
            IF irc_socket # 0 /\ ircState[irc_socket] = "open" /\ o = "ok"
            THEN /\ ircOut' = Append(ircOut, pong_message(line) \o << CRLF >>)
                 /\ chatBatch' = Tail(chatBatch)
                 /\ UNCHANGED << chatPc, connected, wsOut >>
            ELSE /\ chatPc' = ChatExceptNext
                 /\ chatBatch' = << >>
                 /\ UNCHANGED << connected, wsOut, ircOut >>
       [] text = << >> ->
            /\ chatBatch' = Tail(chatBatch)
            /\ UNCHANGED << chatPc, connected, wsOut, ircOut >>
       [] OTHER ->
            /\ send_to_proxy(text, o)
            /\ chatBatch' = Tail(chatBatch)
            /\ chatPc' = IF send_to_proxy_result(o) = "True" THEN "fwd"
                         ELSE "lines"
            /\ UNCHANGED ircOut
  /\ UNCHANGED << running, websocket, irc_socket, message_handlers, cfgVars,
                  sockVars, runPc, rxPc, hIdx, curMsg, dispatched, discVars,
                  envVars, stops, ret, cancelled, runHist >>

\* line 295 exhausted, back to line 289
ChatBatchEnd ==
  /\ chatPc = "lines"
  /\ chatBatch = << >>
  /\ chatPc' = ChatLoopNext
  /\ UNCHANGED << instVars, cfgVars, sockVars, logVars, runPc, rxPc, chatBatch,
                  hIdx, curMsg, dispatched, discVars, envVars, stops,
                  ret, cancelled, runHist >>

\* line 222 seen from line 309: the await of send() is over
ChatFwdResume ==
  /\ chatPc = "fwd"
  /\ Holder = "none"
  /\ chatPc' = "lines"
  /\ UNCHANGED << instVars, cfgVars, sockVars, logVars, runPc, rxPc, chatBatch,
                  hIdx, curMsg, dispatched, discVars, envVars, stops,
                  ret, cancelled, runHist >>

\* line 314: asyncio.sleep(1) is over
ChatWake ==
  /\ chatPc = "sleep"
  /\ Holder = "none"
  /\ chatPc' = ChatLoopNext
  /\ UNCHANGED << instVars, cfgVars, sockVars, logVars, runPc, rxPc, chatBatch,
                  hIdx, curMsg, dispatched, discVars, envVars, stops,
                  ret, cancelled, runHist >>

\* --------------------------------------------------------- the relay peer
\* the downstream side closes the connection the instance refers to
RemoteClose ==
  /\ websocket # 0
  /\ wsState[websocket] # "closed"
  /\ wsState' = [wsState EXCEPT ![websocket] = "closed"]
  /\ UNCHANGED << instVars, cfgVars, ircState, wsCloses, ircCloses, logVars,
                  runPc, taskVars, discVars, envVars, stops, ret,
                  cancelled, runHist >>

\* ----------------------------------------------------------- specification
\* The instance with its one run(): the client registers handlers, calls
\* run(), and may call _send_to_proxy and disconnect before and after it.
ClientStep ==
  \/ ClientRegister
  \/ \E o \in {"ok", "fail"} : ClientSendToProxy(o)
  \/ \E o \in CloseOutcomes : ClientDisconnect(o)
  \/ \E o \in CloseOutcomes : ClientDisconnectEnd(o)
  \/ RunStart

RunStep ==
  \/ \E ok \in BOOLEAN : RunConnect(ok)
  \/ \E k \in IrcOutcomes : RunChatConnect(k)
  \/ \E o \in CloseOutcomes : RunChatFailDisconnect(o)
  \/ \E o \in CloseOutcomes : RunD340End(o)
  \/ RunGatherDone
  \/ \E o \in CloseOutcomes : RunFinally(o)
  \/ \E o \in CloseOutcomes : RunDfinEnd(o)

StopStep ==
  \/ \E o \in CloseOutcomes : StopBegin(o)
  \/ \E o \in CloseOutcomes : StopEnd(o)

RxStep ==
  \/ RxStart
  \/ \E f \in Frames : RxRecvFrame(f)
  \/ RxRecvBad
  \/ RxRecvClosed
  \/ \E r \in {"return", "raise"} : RxHandlerDone(r)
  \/ RxWake

ChatStep ==
  \/ ChatStart
  \/ \E b \in BatchesOf(MaxBatch) : ChatRecvData(b)
  \/ ChatRecvError
  \/ \E o \in {"ok", "fail"} : ChatLine(o)
  \/ ChatBatchEnd
  \/ ChatFwdResume
  \/ ChatWake

EnvStep ==
  \/ RemoteClose
  \/ \E o \in {"closed", "closing"} : Cancel(o)

Next == ClientStep \/ RunStep \/ StopStep \/ RxStep \/ ChatStep \/ EnvStep

\* scripts/run_twitch_live.py builds the instance from the configuration,
\* whose oauth_token defaults to the empty string (config_manager/live.py
\* line 27).  A token changes the PASS line and send_message, nothing else.
InitRun == Init /\ oauth_token = << >>

Spec == InitRun /\ [][Next]_vars

\* The instance without run(): the client calls the operations that open,
\* use and close the two connections, one after another, in any order.
\* None of them reads the token but for the PASS line.
NextApi ==
  \/ \E ok \in BOOLEAN : ClientConnect(ok)
  \/ \E k \in IrcOutcomes : ClientIrcConnect(k)
  \/ \E o \in {"ok", "fail"} : ClientSendToProxy(o)
  \/ \E o \in CloseOutcomes : ClientDisconnect(o)
  \/ \E o \in CloseOutcomes : ClientDisconnectEnd(o)
  \/ RemoteClose

SpecApi == InitRun /\ [][NextApi]_vars

\* The chat side of the instance without run(), for every token: the client
\* opens the chat socket, posts to the chat and disconnects, one call after
\* another, in any order.  No relay connection exists, so disconnect()
\* never waits for a close().
NextSay ==
  \/ \E k \in IrcOutcomes : ClientIrcConnect(k)
  \/ \E o \in {"ok", "fail"} : ClientSendMessage(o)
  \/ \E o \in CloseOutcomes : ClientDisconnect(o)

SpecSay == Init /\ [][NextSay]_vars

\* The chat task working through one read, line by line.  It starts where
\* run() is once both connects have succeeded, the receive task has reached
\* its recv() and the first read of the chat task has returned; the read is
\* any sequence of up to MaxSegments segments of ChatLineSet.
PingTokens == { << >>, << "t" >>, << "PING" >>, << "t", ".", "PING" >> }

ChatTexts == { << "h" >>, << " ", "h" >>, << "h", " " >>, << "h", " ", "h" >>,
               << "PING" >>, << "PRIVMSG", " ", "#", "d", " ", ":", "h" >> }

ChatChannels == {"c", "d"}

ChatLineSet ==
  { << >>, JoinLine, CapAckLine, NoticeLine }
    \cup { PingLine(tok) : tok \in PingTokens }
    \cup { PrivmsgLine("u", ch, x) : ch \in ChatChannels, x \in ChatTexts }

ChatReads == UNION { [1..k -> ChatLineSet] : k \in 1..MaxSegments }

InitChat ==
  /\ running = TRUE
  /\ connected = TRUE
  /\ websocket = 1
  /\ irc_socket = 1
  /\ message_handlers = << >>
  /\ wsApi \in WsApis
  /\ oauth_token = << >>
  /\ wsState = << "open" >>
  /\ ircState = << "open" >>
  /\ wsCloses = << 0 >>
  /\ ircCloses = << 0 >>
  /\ wsOut = << >>
  /\ ircOut = IrcLoginLines("ok")
  /\ runPc = "gather"
  /\ rxPc = "recv"
  /\ chatPc = "lines"
  /\ discPc = [c \in Callers |-> "idle"]
  /\ discWs = [c \in Callers |-> 0]
  /\ \E b \in ChatReads : chatBatch = strip_split(b)
  /\ hIdx = 0
  /\ curMsg = ""
  /\ dispatched = << >>
  /\ reads = 1
  /\ stops = 0
  /\ ret = [op |-> "run", val |-> "pending"]
  /\ cancelled = FALSE
  /\ runWs = 1
  /\ runIrc = 1
  /\ runRelayOk = "ok"
  /\ runChat = "ok"
  /\ runSpawned = TRUE
  /\ lastDisc = "none"

NextChat ==
  \/ \E o \in {"ok", "fail"} : ChatLine(o)
  \/ ChatBatchEnd
  \/ ChatFwdResume

SpecChat == InitChat /\ [][NextChat]_vars

\* The chat task in the middle of a run(), back at its read after an earlier
\* batch whose one chat message went downstream: it reads again and
\* forwards.  reads counts the reads from here on.
EarlierFrame ==
  [ws |-> 1, text |-> parse_irc_message(PrivmsgLine("u", "c", << "first" >>))]

InitOrder ==
  /\ running = TRUE
  /\ connected = TRUE
  /\ websocket = 1
  /\ irc_socket = 1
  /\ message_handlers = << >>
  /\ wsApi \in WsApis
  /\ oauth_token = << >>
  /\ wsState = << "open" >>
  /\ ircState = << "open" >>
  /\ wsCloses = << 0 >>
  /\ ircCloses = << 0 >>
  /\ wsOut = << EarlierFrame >>
  /\ ircOut = IrcLoginLines("ok")
  /\ runPc = "gather"
  /\ rxPc = "recv"
  /\ chatPc = "recv"
  /\ discPc = [c \in Callers |-> "idle"]
  /\ discWs = [c \in Callers |-> 0]
  /\ chatBatch = << >>
  /\ hIdx = 0
  /\ curMsg = ""
  /\ dispatched = << >>
  /\ reads = 0
  /\ stops = 0
  /\ ret = [op |-> "run", val |-> "pending"]
  /\ cancelled = FALSE
  /\ runWs = 1
  /\ runIrc = 1
  /\ runRelayOk = "ok"
  /\ runChat = "ok"
  /\ runSpawned = TRUE
  /\ lastDisc = "none"

\* What a read holds here: two different chat messages, a PING, a line that
\* is neither, an empty segment.
OrderLines ==
  { << >>, JoinLine, PingLine(<< "t" >>),
    PrivmsgLine("u", "c", << "a" >>), PrivmsgLine("u", "c", << "b" >>) }

OrderReads == UNION { [1..k -> OrderLines] : k \in 1..MaxSegments }

NextOrder ==
  \/ \E b \in OrderReads : ChatRecvData(b)
  \/ ChatRecvError
  \/ \E o \in {"ok", "fail"} : ChatLine(o)
  \/ ChatBatchEnd
  \/ ChatFwdResume
  \/ ChatWake

SpecOrder == InitOrder /\ [][NextOrder]_vars

\* The instance with its one run() under the scheduling the code relies on:
\* every step of the program's own code that can be taken is taken in the
\* end (the event loop resumes a coroutine that is ready; websockets.connect
\* and close() come back, close_timeout=5 at line 73 bounds the latter;
\* asyncio.sleep(1) ends; recv() on a closed connection raises).  Nothing is
\* assumed about what the outside does: whether a frame or a chat line
\* arrives, whether a handler returns, whether anyone calls or cancels.
RxCodeStep == RxStart \/ RxRecvClosed \/ RxWake

ChatCodeStep ==
  \/ ChatStart
  \/ \E o \in {"ok", "fail"} : ChatLine(o)
  \/ ChatBatchEnd
  \/ ChatFwdResume
  \/ ChatWake

FairSpec ==
  /\ Spec
  /\ WF_vars(RunStep)
  /\ WF_vars(\E o \in CloseOutcomes : StopEnd(o))
  /\ WF_vars(RxCodeStep)
  /\ WF_vars(ChatCodeStep)

\* ------------------------------------------------------------------ claims
Live(st) == st # "closed"

LoopsActive == runPc = "gather" /\ ~TaskEnded(rxPc) /\ ~TaskEnded(chatPc)

ChatConnectFailed ==
  runRelayOk = "ok" /\ runChat \in {"nosock", "pass", "nick", "join"}

Disconnected == ~running /\ ~connected /\ ~is_connected

\* C1: a frame is written to the relay only in a step that starts with the
\* connected flag set and after a connect() that succeeded; a direct
\* _send_to_proxy made while no connect() has ever succeeded returns False
\* and writes nothing.
C1_ForwardOnlyWhenReady ==
  [][ /\ Len(wsOut') > Len(wsOut) => (connected /\ wsState # << >>)
      /\ (ret'.op = "_send_to_proxy" /\ wsState' = << >>) =>
            (ret'.val = "False" /\ wsOut' = << >>) ]_vars

C1_Witness == wsOut # << >> /\ connected /\ chatPc = "fwd"

\* C2: once the relay connect of run() has failed, no chat connect is
\* attempted: no chat socket exists, no login line was sent, and neither
\* task was created, up to and after run()'s return.
C2_NoChatAfterRelayFailure ==
  runRelayOk = "failed" =>
    /\ runChat = "none"
    /\ runIrc = 0
    /\ irc_socket = 0
    /\ ircState = << >>
    /\ ircOut = << >>
    /\ ~runSpawned
    /\ rxPc = "none"
    /\ chatPc = "none"

C2_Witness == runPc = "done" /\ runRelayOk = "failed"

\* C3: when run() has returned after a relay connect that succeeded and a
\* chat connect that failed, the relay connection is closed, the connected
\* flag is off, no chat socket is open and neither task was ever created.
C3_RelayClosedAfterChatFailure ==
  (runPc = "done" /\ ChatConnectFailed) =>
    /\ wsState[runWs] = "closed"
    /\ ~connected
    /\ \A i \in DOMAIN ircState : ircState[i] = "closed"
    /\ ~runSpawned
    /\ rxPc = "none"
    /\ chatPc = "none"

C3_Witness == runPc = "done" /\ ChatConnectFailed /\ runChat = "nick"

\* C4: close() is never called a second time on a relay connection or on a
\* chat socket, and when run() has returned every socket it opened has been
\* closed, by exactly one close() call.
C4_ReleasedExactlyOnce ==
  /\ \A i \in DOMAIN wsCloses : wsCloses[i] <= 1
  /\ \A i \in DOMAIN ircCloses : ircCloses[i] <= 1
  /\ runPc = "done" =>
       /\ runWs # 0 => (wsCloses[runWs] = 1 /\ wsState[runWs] = "closed")
       /\ runIrc # 0 => (ircCloses[runIrc] = 1 /\ ircState[runIrc] = "closed")

\* C5: at most one relay connection and at most one chat socket opened by
\* the instance are live at a time, and a live one is the one the instance
\* refers to.
C5_AtMostOneLive ==
  /\ Cardinality({i \in DOMAIN wsState : Live(wsState[i])}) <= 1
  /\ Cardinality({i \in DOMAIN ircState : Live(ircState[i])}) <= 1
  /\ \A i \in DOMAIN wsState : Live(wsState[i]) => websocket = i
  /\ \A i \in DOMAIN ircState : Live(ircState[i]) => irc_socket = i

\* A disconnect() call returns in this step: the awaited close() is over, or
\* the call had no close() to await.
DisconnectReturns ==
  /\ cancelled' = cancelled
  /\ \/ \E c \in Callers : discPc[c] = "closing" /\ discPc'[c] = "idle"
     \/ stops' # stops /\ discPc'["stopper"] = "idle"
     \/ /\ runPc \in {"chatfail", "finally"}
        /\ runPc' \notin {runPc, "d340", "dfin"}
     \/ ret'.op = "disconnect" /\ ret'.val = "None"

\* C6: no disconnect() call raises, whoever makes it (the client before,
\* after or instead of run(), twice in a row, the stop task during run(),
\* run() itself) and whether or not a close() raises; when a call returns
\* the running flag is off, the connected flag is off and is_connected is
\* false.
C6_DisconnectSafe ==
  [][ /\ lastDisc' # "raised"
      /\ ret'.val # "raised"
      /\ DisconnectReturns => Disconnected' ]_vars

C6_Witness ==
  /\ ret.op = "disconnect"
  /\ ret.val = "None"
  /\ runPc = "done"
  /\ irc_socket # 0

\* C7: once disconnect() has been called by the stop task while run() has
\* both tasks alive, run() returns in the end.
C7_StopEndsRun ==
  (discPc["stopper"] = "closing" /\ LoopsActive) ~> (runPc = "done")

\* C8: while the chat task waits for the next chat line the receive task can
\* take the next frame off the open relay connection, and while the receive
\* task waits for a frame the chat task can go on.
C8_LoopsYield ==
  /\ (chatPc = "recv" /\ rxPc = "recv" /\ wsState[websocket] = "open") =>
        ENABLED (\E f \in Frames : RxRecvFrame(f))
  /\ ( /\ rxPc = "recv"
       /\ runPc = "gather"
       /\ chatPc \in {"start", "fwd", "sleep"} ) => ENABLED ChatStep

\* C9: while a handler call has not come back, the receive task can still
\* take the next frame off the open relay connection whenever the event
\* loop is free.
C9_ReceivesWhileHandlerRuns ==
  (rxPc = "handler" /\ Holder = "none" /\ wsState[websocket] = "open") =>
     ENABLED (\E f \in Frames : RxRecvFrame(f))

\* C10: during a dispatch the handlers invoked so far are the first ones of
\* the registry, each once, in registration order, each with the message
\* being dispatched; the dispatch ends only after the last handler of the
\* registry, whether the handlers returned or raised, and then the receive
\* loop goes back to its loop condition.
C10_DispatchAll ==
  [][ /\ rxPc' = "handler" =>
           /\ hIdx' \in 1..Len(message_handlers')
           /\ Len(dispatched') = hIdx'
           /\ \A i \in 1..hIdx' : /\ dispatched'[i].h = message_handlers'[i]
                                  /\ dispatched'[i].msg = curMsg'
      /\ (rxPc = "handler" /\ rxPc' \notin {"handler", "cancelled"}) =>
           /\ hIdx = Len(message_handlers)
           /\ rxPc' \in {"recv", "done"} ]_vars

C10_Witness ==
  /\ rxPc = "handler"
  /\ hIdx = 2
  /\ dispatched[1].out = "raise"

\* The chat task takes the next line of the read, every write it makes
\* succeeding.
TakesLine(line) ==
  /\ chatPc = "lines"
  /\ chatBatch # << >>
  /\ Head(chatBatch) = line
  /\ ChatLine("ok")

\* C11: for a probe `PING` or `PING :<token>` the chat task sends exactly one
\* line, `PONG` with the same token, forwards nothing and goes on with the
\* rest of the read.
C11_PongEchoesToken ==
  [][ \A tok \in PingTokens :
        (TakesLine(PingLine(tok)) /\ ircState[irc_socket] = "open") =>
          /\ ircOut' = Append(ircOut,
                 (IF tok = << >> THEN << "PONG" >>
                  ELSE << "PONG", " ", ":" >> \o tok) \o << CRLF >>)
          /\ wsOut' = wsOut
          /\ chatBatch' = Tail(chatBatch)
          /\ chatPc' = "lines" ]_vars

\* C12: a step of the chat task inside a read takes at most the first of the
\* segments still to be processed: no segment is dropped because of what
\* happened to another one.
C12_SegmentsIndependent ==
  [][ (chatPc = "lines" /\ chatBatch # << >> /\ chatPc' # "cancelled") =>
         chatBatch' \in {chatBatch, Tail(chatBatch)} ]_vars

\* C13: for a chat post of user u to the joined channel with text x, the one
\* frame forwarded has the text `u: x`, x unchanged.
C13_TextVerbatim ==
  [][ \A x \in ChatTexts :
        (TakesLine(PrivmsgLine("u", Channel, x)) /\ is_connected
           /\ wsState[websocket] = "open") =>
          wsOut' = Append(wsOut, [ws |-> websocket,
                                  text |-> << "u", ":", " " >> \o x]) ]_vars

\* C14: a line that is not a chat post to the joined channel causes no frame
\* to be forwarded.
C14_OnlyJoinedChannel ==
  [][ ( /\ chatPc = "lines"
        /\ chatBatch # << >>
        /\ \A x \in ChatTexts :
              Head(chatBatch) # PrivmsgLine("u", Channel, x) ) =>
        wsOut' = wsOut ]_vars

\* C15: a direct _send_to_proxy whose write fails returns False, clears the
\* connected flag, leaves is_connected false and writes nothing; one made
\* while the flag is off returns False, writes nothing and leaves the flag
\* off; the flag comes back on only in a step in which a connect() opens a
\* new relay connection.
C15_WriteFailureClearsFlag ==
  [][ /\ \A o \in {"ok", "fail"} : ClientSendToProxy(o) =>
            /\ (is_connected /\ ~RelayWrites(o)) =>
                  /\ ret'.val = "False"
                  /\ ~connected'
                  /\ ~is_connected'
                  /\ wsOut' = wsOut
            /\ ~connected =>
                  /\ ret'.val = "False"
                  /\ ~connected'
                  /\ wsOut' = wsOut
      /\ (~connected /\ connected') =>
            /\ Len(wsState') = Len(wsState) + 1
            /\ websocket' = Len(wsState') ]_vars

C15_Witness ==
  /\ ret = [op |-> "_send_to_proxy", val |-> "False"]
  /\ ~connected
  /\ websocket # 0
  /\ wsState[websocket] = "open"

\* C16: is_connected is true only when there is a relay connection, the
\* connected flag is set and the connection is open (no disconnect() being
\* under way).
C16_ConnectedOnlyWhenOpen ==
  ((\A c \in Callers : discPc[c] = "idle") /\ is_connected) =>
     /\ websocket # 0
     /\ connected
     /\ wsState[websocket] = "open"

\* C17: send_message writes to the chat socket only when the instance has a
\* chat socket and a token, and then it writes the one line
\* `PRIVMSG #<channel> :<text>`; without a socket or without a token it
\* returns False and changes nothing.
C17_SayNeedsSession ==
  [][ \A o \in {"ok", "fail"} : ClientSendMessage(o) =>
        /\ ircOut' # ircOut =>
              /\ irc_socket # 0
              /\ oauth_token # << >>
              /\ ircOut' = Append(ircOut,
                    << "PRIVMSG", " ", "#", "c", " ", ":", "h", CRLF >>)
              /\ ret'.val = "True"
        /\ (irc_socket = 0 \/ oauth_token = << >>) =>
              /\ ret'.val = "False"
              /\ UNCHANGED << instVars, cfgVars, sockVars, logVars, runPc,
                              taskVars, discVars, envVars, stops, cancelled,
                              runHist >> ]_vars

C17_Witness ==
  /\ ret = [op |-> "send_message", val |-> "False"]
  /\ oauth_token # << >>
  /\ irc_socket = 0
  /\ ircState # << >>

\* C18: a chat connect that reports success has sent, on the socket it
\* opened, exactly the three lines PASS, NICK, JOIN #<channel> in this order,
\* the PASS value being `oauth:<token>` with a token and `oauth:anonymous`
\* without one; a chat connect that fails reports False, has sent only the
\* first lines of these three, each once, and has opened at most one socket.
C18_LoginSequence ==
  [][ \A k \in IrcOutcomes : ClientIrcConnect(k) =>
        LET bare == IF oauth_token # << >> /\ Head(oauth_token) = "oauth:"
                    THEN Tail(oauth_token) ELSE oauth_token
            pass == IF bare = << >> THEN << "oauth:", "anonymous" >>
                    ELSE << "oauth:" >> \o bare
            login == << << "PASS", " " >> \o pass \o << CRLF >>,
                        << "NICK", " ", "nick", CRLF >>,
                        << "JOIN", " ", "#", "c", CRLF >> >>
        IN /\ Len(ircState') <= Len(ircState) + 1
           /\ IF ret'.val = "True"
              THEN /\ ircOut' = login
                   /\ irc_socket' = Len(ircState')
                   /\ Len(ircState') = Len(ircState) + 1
              ELSE /\ ret'.val = "False"
                   /\ IF Len(ircState') = Len(ircState)
                      THEN ircOut' = ircOut
                      ELSE /\ Len(ircOut') < 3
                           /\ ircOut' = SubSeq(login, 1, Len(ircOut')) ]_vars

C18_Witness ==
  /\ ret = [op |-> "_connect_to_twitch_irc", val |-> "True"]
  /\ oauth_token = << "tok" >>
  /\ Len(ircOut) = 3

\* C19: once run() has gone past its gather, and when it has returned, both
\* tasks it created have ended.
C19_RunOutlivesLoops ==
  (runSpawned /\ runPc \in {"finally", "dfin", "done"}) =>
     /\ TaskEnded(rxPc)
     /\ TaskEnded(chatPc)

C19_Witness ==
  /\ runPc = "done"
  /\ rxPc = "done"
  /\ chatPc = "done"
  /\ ~cancelled

\* C20: a read of the chat task that fails while the instance is running is
\* followed by the pause with no socket closed, and the chat task goes from
\* its loop body or its pause into another read only while the instance is
\* running and the relay is connected.
C20_ChatReadsOnlyWhenReady ==
  [][ /\ (chatPc = "recv" /\ chatPc' = "sleep") =>
            UNCHANGED << wsState, ircState, wsCloses, ircCloses >>
      /\ (chatPc \in {"lines", "fwd", "sleep"} /\ chatPc' = "recv") =>
            (running /\ connected) ]_vars

\* The receive task is inside its loop: waiting for a frame, for a handler
\* or for the end of its pause.
RxInLoop == rxPc \in {"recv", "handler", "sleep"}

\* C21: when the receive task leaves its loop while the instance is running
\* and the relay connection is closed (closed by the peer: a disconnect()
\* turns the running flag off first), the connected flag is off afterwards;
\* once it has ended it stays ended, so it dispatches nothing more; no step
\* of it opens a relay connection; and after a read or decode error it
\* pauses, then reads again if the instance is running and is_connected,
\* and ends otherwise.
C21_RemoteCloseEndsReceive ==
  [][ /\ ( /\ RxInLoop
           /\ rxPc' = "done"
           /\ running
           /\ wsState[websocket] = "closed" ) => ~connected'
      /\ rxPc = "done" => (rxPc' = "done" /\ dispatched' = dispatched)
      /\ rxPc' # rxPc =>
            (Len(wsState') = Len(wsState) /\ websocket' = websocket)
      /\ (rxPc = "sleep" /\ rxPc' \notin {"sleep", "cancelled"}) =>
            rxPc' = IF running /\ is_connected THEN "recv" ELSE "done"
    ]_vars

\* C22: the frames written downstream only ever grow at the end, by one
\* frame at a time; a frame the chat task adds is the text parsed from the
\* first line of the batch not yet handled, and that line leaves the batch
\* in the same step (one line, at most one frame); the batch only loses its
\* first line, is abandoned, or is replaced by a new read once it is empty.
\* So frames go downstream in the order of their lines, within a read and
\* from one read to the next, none twice.
C22_ForwardInReadOrder ==
  [][ /\ Len(wsOut') \in {Len(wsOut), Len(wsOut) + 1}
      /\ SubSeq(wsOut', 1, Len(wsOut)) = wsOut
      /\ Len(wsOut') > Len(wsOut) =>
            /\ chatPc = "lines"
            /\ chatBatch # << >>
            /\ wsOut'[Len(wsOut')] =
                 [ws |-> websocket,
                  text |-> parse_irc_message(Head(chatBatch))]
            /\ chatBatch' = Tail(chatBatch)
      /\ chatBatch' # chatBatch =>
            \/ chatBatch # << >> /\ chatBatch' = Tail(chatBatch)
            \/ chatBatch' = << >>
            \/ chatBatch = << >> /\ chatPc = "recv"
    ]_vars

\* Two different chat messages of one read have gone downstream after the
\* frame of the earlier read.
C22_Witness ==
  /\ Len(wsOut) = 3
  /\ wsOut[1] = EarlierFrame
  /\ wsOut[2] # wsOut[3]
  /\ wsOut[2] # EarlierFrame
  /\ reads = 1
  /\ chatBatch = << >>

\* run() is in its gather and the relay connection it opened is lost: the
\* connected flag is off (a failed write, or a close the receive loop saw)
\* or the connection is closed.
RelayLost ==
  /\ runSpawned
  /\ runPc = "gather"
  /\ (~connected \/ wsState[runWs] = "closed")

\* The chat task is about to take a line that parses as a chat message.
ChatMessageNext ==
  /\ chatPc = "lines"
  /\ chatBatch # << >>
  /\ Head(chatBatch) # << >>
  /\ ~IsPing(Head(chatBatch))
  /\ parse_irc_message(Head(chatBatch)) # << >>

\* C23: once the relay connection is lost during run(), no frame is written
\* downstream any more; a chat message the chat task takes then leaves the
\* batch and the task goes on with the next line (nothing is kept for
\* later); while the instance is running the chat task does not end, it
\* goes on to read; and no relay connection is opened and the connected
\* flag is not turned on again.
C23_LostRelayDropsChat ==
  [][ RelayLost =>
        /\ wsOut' = wsOut
        /\ (ChatMessageNext /\ chatBatch' # chatBatch) =>
              (chatBatch' = Tail(chatBatch) /\ chatPc' = "lines")
        /\ (running /\ irc_socket # 0 /\ chatPc \in {"lines", "sleep"}) =>
              chatPc' # "done"
        /\ (running /\ chatPc = "lines" /\ chatBatch = << >>
              /\ chatPc' # chatPc /\ chatPc' # "cancelled") =>
              chatPc' = "recv"
        /\ Len(wsState') = Len(wsState)
        /\ websocket' \in {websocket, 0}
        /\ ~connected => ~connected'
    ]_vars

\* The relay connection was closed by the peer, the receive loop has ended
\* with the flag off, the instance is still running and the chat task has
\* read a batch whose next line is a chat message.
C23_Witness ==
  /\ RelayLost
  /\ running
  /\ ~connected
  /\ wsState[runWs] = "closed"
  /\ rxPc = "done"
  /\ ChatMessageNext
  /\ wsOut = << >>

====
